---- MODULE Spec2Model ----
(***************************************************************************)
(* Abacus-Collection-Replica daemon (lib/rucio/daemons/abacus/             *)
(* collection_replica.py): the Concurrency Driver `run`, the Daemon Loop   *)
(* started by `collection_replica_update`, the Polling Cycle `run_once`    *)
(* and the stop handler `stop`.                                            *)
(*                                                                         *)
(* External collaborators are modelled by their consumed interface:        *)
(*   heartbeat_handler.live()  returns any valid assignment,               *)
(*   get_cleaned_updated_collection_replicas  returns any batch or raises, *)
(*   update_collection_replica  returns or raises,                         *)
(*   run_daemon (rucio.daemons.common)  is the loop of spec section 4.2.   *)
(***************************************************************************)
EXTENDS Integers, Sequences, FiniteSets, TLC

(* ------------------------------ bounds -------------------------------- *)
MaxThreads == 2
MaxWorkers == 2
MaxItems == 2
MaxLimit == 2
MaxNegLimit == 1
MaxCycles == 2
MaxSleep == 1

(* ------------------------- program constants -------------------------- *)
DefaultLimit == 1000
DefaultSleepTime == 10

(* ------------------------------ domains ------------------------------- *)
Loops == 0..(MaxThreads - 1)
Items == 1..MaxItems
Limits == (0 - MaxNegLimit)..MaxLimit
SleepTimes == 1..MaxSleep
Unset == 0 - 1

\* every (worker_number, total_workers) pair the Heartbeat Registry may hand out
Assignments == {a \in (0..(MaxWorkers - 1)) \X (1..MaxWorkers) : a[1] < a[2]}

\* every batch the Work Source may return: finite sequences of distinct items
Batches == UNION {{s \in [1..n -> Items] : \A p, q \in 1..n : p # q => s[p] # s[q]} : n \in 0..MaxItems}

\* the full batch of a fetch for `limit` items: the items 1..limit, in order
FullBatch(limit) == [k \in 1..limit |-> k]

\* the batches a fetch for `limit` items may get: every short batch, and for
\* a limit no short batch fills (the default limit of the once loop) also the
\* full batch
BatchesFor(limit) == Batches \cup (IF limit > MaxItems THEN {FullBatch(limit)} ELSE {})

VARIABLES
    args,            \* the arguments of run: once, threads, sleep_time, limit
    is_old_db,       \* what rucio.db.sqla.util.is_old_db() reports
    main,            \* position of the caller of run
    graceful_stop,   \* the module-level threading.Event
    pc,              \* per loop instance: position in the Daemon Loop / run_once
    largs,           \* per loop instance: the once, limit, sleep_time it was given
    worker_number,   \* per loop instance: local of run_once
    total_workers,   \* per loop instance: local of run_once
    replicas,        \* per loop instance: the fetched batch
    idx,             \* per loop instance: items of the batch the for loop has passed
    result,          \* per loop instance: <<>> or <<must_sleep>> returned by run_once
    cycles,          \* per loop instance: number of Polling Cycles begun
    fetched,         \* history: the arguments of the cycle's Work Source call
    applied          \* history: the items the Work Applier completed in this cycle

vars == <<args, is_old_db, main, graceful_stop, pc, largs, worker_number, total_workers,
          replicas, idx, result, cycles, fetched, applied>>

loopVars == <<pc, largs, worker_number, total_workers, replicas, idx, result, cycles,
              fetched, applied>>

(* ------------------------- the pure parts ------------------------------ *)

\* variants of the definitions below, each changed the way a slip in the code
\* would change it; the properties further down must tell them apart
MustSleepLe(limit, k) == (limit # 0) /\ (k <= limit)
MustSleepUnlessFull(limit, k) == ~(limit > 0 /\ k >= limit)
NeverBreak(stop) == FALSE
FreshEvent(stop) == FALSE
OnceLoopArgsNotOnce(a) == [once |-> FALSE, limit |-> DefaultLimit, sleep_time |-> DefaultSleepTime]
RunBranchNoCheck(old, once) == IF once THEN "once" ELSE "threads"

\* run_once lines 86-88: must_sleep after a non-empty batch of k items
MustSleep(limit, k) == (limit # 0) /\ (k < limit)

\* run_once lines 67-69: the arguments handed to the Work Source
FetchArgs(wn, tw, limit) == [total_workers |-> tw - 1, worker_number |-> wn, limit |-> limit]

\* run_once line 80: the for loop is left when the event is set
BreakOnStop(stop) == stop

\* collection_replica_update line 48: the event the Daemon Loop is given
LoopStopSignal(stop) == stop

\* run line 115: collection_replica_update(once)
OnceLoopArgs(a) == [once |-> a.once, limit |-> DefaultLimit, sleep_time |-> DefaultSleepTime]

\* run line 118: kwargs={'once': once, 'sleep_time': sleep_time, 'limit': limit}
ThreadLoopArgs(a) == [once |-> a.once, limit |-> a.limit, sleep_time |-> a.sleep_time]

\* run lines 110-116: which branch run takes
RunBranch(old, once) == IF old THEN "raise" ELSE IF once THEN "once" ELSE "threads"

\* variant of KeepWaiting: the wait loop never ends
KeepWaitingForever(alive) == TRUE

\* run line 123: the wait loop goes on while thread_list[0] is alive
KeepWaiting(alive) == alive[0]

NoArgs == [once |-> FALSE, limit |-> 0, sleep_time |-> 0]

Alive(i) == pc[i] \notin {"none", "stopped", "failed"}

(* ------------------------------ Init ----------------------------------- *)
Init ==
    /\ args \in [once : BOOLEAN, threads : 0..MaxThreads, sleep_time : SleepTimes, limit : Limits]
    /\ is_old_db \in BOOLEAN
    /\ main = "init"
    /\ graceful_stop = FALSE
    /\ pc = [i \in Loops |-> "none"]
    /\ largs = [i \in Loops |-> NoArgs]
    /\ worker_number = [i \in Loops |-> Unset]
    /\ total_workers = [i \in Loops |-> Unset]
    /\ replicas = [i \in Loops |-> <<>>]
    /\ idx = [i \in Loops |-> 0]
    /\ result = [i \in Loops |-> <<>>]
    /\ cycles = [i \in Loops |-> 0]
    /\ fetched = [i \in Loops |-> <<>>]
    /\ applied = [i \in Loops |-> <<>>]

(* --------------------- the stop handler (lines 92-97) ------------------ *)

\* variant of Stop: a second call clears the event
StopToggle ==
    /\ graceful_stop' = ~graceful_stop
    /\ UNCHANGED <<args, is_old_db, main>>
    /\ UNCHANGED loopVars

\* stop(): graceful_stop.set(); callable at any time, any number of times
Stop ==
    /\ graceful_stop' = TRUE
    /\ UNCHANGED <<args, is_old_db, main>>
    /\ UNCHANGED loopVars

(* ------------------ the Concurrency Driver (lines 100-124) ------------- *)

\* run lines 108-119: the schema check, then one loop in the calling thread
\* or `threads` thread objects created with their arguments, none started
\* yet; with threads = 0 nothing is started and thread_list[0] of line 123
\* raises
Run ==
    /\ main = "init"
    /\ LET b == RunBranch(is_old_db, args.once) IN
       \/ /\ b = "raise"
          /\ main' = "raised"
          /\ UNCHANGED <<pc, largs>>
       \/ /\ b = "once"
          /\ main' = "once"
          /\ pc' = [pc EXCEPT ![0] = "starting"]
          /\ largs' = [largs EXCEPT ![0] = OnceLoopArgs(args)]
       \/ /\ b = "threads"
          /\ args.threads = 0
          /\ main' = "failed"
          /\ UNCHANGED <<pc, largs>>
       \/ /\ b = "threads"
          /\ args.threads > 0
          /\ main' = "start"
          /\ pc' = pc
          /\ largs' = [i \in Loops |-> IF i < args.threads THEN ThreadLoopArgs(args) ELSE largs[i]]
    /\ UNCHANGED <<args, is_old_db, graceful_stop, worker_number, total_workers, replicas,
                   idx, result, cycles, fetched, applied>>

\* run line 120: [t.start() for t in thread_list] starts the threads one at
\* a time, in list order; a started thread runs, and may end, before the
\* next one is started. After the last start run is at line 123.
StartThread(i) ==
    /\ main = "start"
    /\ i < args.threads
    /\ pc[i] = "none"
    /\ \A j \in Loops : j < i => pc[j] # "none"
    /\ pc' = [pc EXCEPT ![i] = "starting"]
    /\ main' = IF i = args.threads - 1 THEN "wait" ELSE "start"
    /\ UNCHANGED <<args, is_old_db, graceful_stop, largs, worker_number, total_workers,
                   replicas, idx, result, cycles, fetched, applied>>

\* run line 115: the synchronous loop has returned, or its error propagates
OnceDone ==
    /\ main = "once"
    /\ pc[0] \in {"stopped", "failed"}
    /\ main' = IF pc[0] = "stopped" THEN "returned" ELSE "failed"
    /\ UNCHANGED <<args, is_old_db, graceful_stop>>
    /\ UNCHANGED loopVars

\* run line 123: while thread_list[0].is_alive()
WaitCheck ==
    /\ main = "wait"
    /\ main' = IF KeepWaiting([i \in Loops |-> Alive(i)]) THEN "join" ELSE "returned"
    /\ UNCHANGED <<args, is_old_db, graceful_stop>>
    /\ UNCHANGED loopVars

\* run line 124: [t.join(timeout=3.14) for t in thread_list]; every join
\* returns when its thread has ended or its timeout has elapsed
JoinAll ==
    /\ main = "join"
    /\ main' = "wait"
    /\ UNCHANGED <<args, is_old_db, graceful_stop>>
    /\ UNCHANGED loopVars

(* --------------- the Daemon Loop (run_daemon, spec 4.2) ---------------- *)

\* the thread (or the caller, with once) enters the loop
LoopStart(i) ==
    /\ pc[i] = "starting"
    /\ pc' = [pc EXCEPT ![i] = "iter"]
    /\ UNCHANGED <<args, is_old_db, main, graceful_stop, largs, worker_number, total_workers,
                   replicas, idx, result, cycles, fetched, applied>>

\* 4.2 (a)-(b): check the graceful-stop flag, then invoke the Polling Cycle
LoopIter(i) ==
    /\ pc[i] = "iter"
    /\ IF LoopStopSignal(graceful_stop)
       THEN /\ pc' = [pc EXCEPT ![i] = "stopping"]
            /\ cycles' = cycles
       ELSE /\ cycles[i] < MaxCycles
            /\ pc' = [pc EXCEPT ![i] = "L64"]
            /\ cycles' = [cycles EXCEPT ![i] = @ + 1]
    /\ UNCHANGED <<args, is_old_db, main, graceful_stop, largs, worker_number, total_workers,
                   replicas, idx, result, fetched, applied>>

\* 4.2 (c)-(d): after the cycle: return with once, sleep when must_sleep,
\* otherwise loop immediately; the frame of run_once is gone, and the
\* outcome is dropped once it has been acted on (with once the loop holds
\* its only outcome until it returns)
LoopAfter(i) ==
    /\ pc[i] = "returned"
    /\ pc' = [pc EXCEPT ![i] = IF largs[i].once THEN "stopping"
                                ELSE IF result[i][1] THEN "sleeping" ELSE "iter"]
    /\ worker_number' = [worker_number EXCEPT ![i] = Unset]
    /\ total_workers' = [total_workers EXCEPT ![i] = Unset]
    /\ replicas' = [replicas EXCEPT ![i] = <<>>]
    /\ idx' = [idx EXCEPT ![i] = 0]
    /\ result' = [result EXCEPT ![i] = IF largs[i].once THEN @ ELSE <<>>]
    /\ fetched' = [fetched EXCEPT ![i] = <<>>]
    /\ applied' = [applied EXCEPT ![i] = <<>>]
    /\ UNCHANGED <<args, is_old_db, main, graceful_stop, largs, cycles>>

\* the interruptible sleep ends: sleep_time has elapsed or the flag was set
Wake(i) ==
    /\ pc[i] = "sleeping"
    /\ pc' = [pc EXCEPT ![i] = IF LoopStopSignal(graceful_stop) THEN "stopping" ELSE "iter"]
    /\ UNCHANGED <<args, is_old_db, main, graceful_stop, largs, worker_number, total_workers,
                   replicas, idx, result, cycles, fetched, applied>>

\* normal exit: liveness deregistration, the loop returns
LoopExit(i) ==
    /\ pc[i] = "stopping"
    /\ pc' = [pc EXCEPT ![i] = "stopped"]
    /\ UNCHANGED <<args, is_old_db, main, graceful_stop, largs, worker_number, total_workers,
                   replicas, idx, result, cycles, fetched, applied>>

(* ------------------ the Polling Cycle (lines 59-89) -------------------- *)

\* variant of Live: the assignment is asked for in the first cycle only
LiveFirstCycleOnly(i) ==
    /\ pc[i] = "L64"
    /\ IF cycles[i] = 1
       THEN \E a \in Assignments :
               /\ worker_number' = [worker_number EXCEPT ![i] = a[1]]
               /\ total_workers' = [total_workers EXCEPT ![i] = a[2]]
       ELSE UNCHANGED <<worker_number, total_workers>>
    /\ pc' = [pc EXCEPT ![i] = "L67"]
    /\ UNCHANGED <<args, is_old_db, main, graceful_stop, largs, replicas, idx, result,
                   cycles, fetched, applied>>

\* line 64: worker_number, total_workers, logger = heartbeat_handler.live()
Live(i) ==
    /\ pc[i] = "L64"
    /\ \E a \in Assignments :
          /\ worker_number' = [worker_number EXCEPT ![i] = a[1]]
          /\ total_workers' = [total_workers EXCEPT ![i] = a[2]]
    /\ pc' = [pc EXCEPT ![i] = "L67"]
    /\ UNCHANGED <<args, is_old_db, main, graceful_stop, largs, replicas, idx, result,
                   cycles, fetched, applied>>

\* variant of Fetch: the assignment is one pair shared by the instances,
\* kept by the first
FetchShared(i) ==
    /\ pc[i] = "L67"
    /\ fetched' = [fetched EXCEPT ![i] =
                      <<FetchArgs(worker_number[0], total_workers[0], largs[i].limit)>>]
    /\ \E b \in BatchesFor(largs[i].limit) :
          /\ replicas' = [replicas EXCEPT ![i] = b]
          /\ IF b = <<>>
             THEN /\ result' = [result EXCEPT ![i] = <<TRUE>>]
                  /\ pc' = [pc EXCEPT ![i] = "returned"]
             ELSE /\ result' = result
                  /\ pc' = [pc EXCEPT ![i] = "L78"]
    /\ UNCHANGED <<args, is_old_db, main, graceful_stop, largs, worker_number, total_workers,
                   idx, cycles, applied>>

\* variant of Fetch: the empty batch is not returned on at once
FetchNoEmptyCheck(i) ==
    /\ pc[i] = "L67"
    /\ fetched' = [fetched EXCEPT ![i] =
                      <<FetchArgs(worker_number[i], total_workers[i], largs[i].limit)>>]
    /\ \E b \in BatchesFor(largs[i].limit) : replicas' = [replicas EXCEPT ![i] = b]
    /\ pc' = [pc EXCEPT ![i] = "L78"]
    /\ UNCHANGED <<args, is_old_db, main, graceful_stop, largs, worker_number, total_workers,
                   idx, result, cycles, applied>>

\* lines 67-76: the Work Source returns a batch; an empty one ends the cycle
Fetch(i) ==
    /\ pc[i] = "L67"
    /\ fetched' = [fetched EXCEPT ![i] =
                      <<FetchArgs(worker_number[i], total_workers[i], largs[i].limit)>>]
    /\ \E b \in BatchesFor(largs[i].limit) :
          /\ replicas' = [replicas EXCEPT ![i] = b]
          /\ IF b = <<>>
             THEN /\ result' = [result EXCEPT ![i] = <<TRUE>>]
                  /\ pc' = [pc EXCEPT ![i] = "returned"]
             ELSE /\ result' = result
                  /\ pc' = [pc EXCEPT ![i] = "L78"]
    /\ UNCHANGED <<args, is_old_db, main, graceful_stop, largs, worker_number, total_workers,
                   idx, cycles, applied>>

\* lines 67-69: the Work Source raises; nothing in run_once catches it
FetchRaise(i) ==
    /\ pc[i] = "L67"
    /\ fetched' = [fetched EXCEPT ![i] =
                      <<FetchArgs(worker_number[i], total_workers[i], largs[i].limit)>>]
    /\ pc' = [pc EXCEPT ![i] = "failed"]
    /\ worker_number' = [worker_number EXCEPT ![i] = Unset]
    /\ total_workers' = [total_workers EXCEPT ![i] = Unset]
    /\ UNCHANGED <<args, is_old_db, main, graceful_stop, largs, replicas, idx, result,
                   cycles, applied>>

\* variant of ForNext: an item the refreshed assignment does not select is
\* skipped
ForNextRefilter(i) ==
    /\ pc[i] = "L78"
    /\ IF idx[i] = Len(replicas[i])
       THEN /\ pc' = [pc EXCEPT ![i] = "returned"]
            /\ result' = [result EXCEPT ![i] = <<MustSleep(largs[i].limit, Len(replicas[i]))>>]
            /\ UNCHANGED <<worker_number, total_workers, idx>>
       ELSE /\ \E a \in Assignments :
                  /\ worker_number' = [worker_number EXCEPT ![i] = a[1]]
                  /\ total_workers' = [total_workers EXCEPT ![i] = a[2]]
                  /\ IF BreakOnStop(graceful_stop)
                     THEN /\ pc' = [pc EXCEPT ![i] = "returned"]
                          /\ result' = [result EXCEPT ![i] =
                                           <<MustSleep(largs[i].limit, Len(replicas[i]))>>]
                          /\ idx' = idx
                     ELSE IF replicas[i][idx[i] + 1] % a[2] = a[1]
                          THEN /\ pc' = [pc EXCEPT ![i] = "L83"]
                               /\ result' = result
                               /\ idx' = idx
                          ELSE /\ pc' = pc
                               /\ result' = result
                               /\ idx' = [idx EXCEPT ![i] = @ + 1]
    /\ UNCHANGED <<args, is_old_db, main, graceful_stop, largs, replicas,
                   cycles, fetched, applied>>

\* lines 78-81 and 86-89: the for loop takes the next item, refreshes liveness
\* and tests the event; after the last item, or when the event is set,
\* must_sleep is computed and returned
ForNext(i) ==
    /\ pc[i] = "L78"
    /\ IF idx[i] = Len(replicas[i])
       THEN /\ pc' = [pc EXCEPT ![i] = "returned"]
            /\ result' = [result EXCEPT ![i] = <<MustSleep(largs[i].limit, Len(replicas[i]))>>]
            /\ UNCHANGED <<worker_number, total_workers>>
       ELSE /\ \E a \in Assignments :
                  /\ worker_number' = [worker_number EXCEPT ![i] = a[1]]
                  /\ total_workers' = [total_workers EXCEPT ![i] = a[2]]
            /\ IF BreakOnStop(graceful_stop)
               THEN /\ pc' = [pc EXCEPT ![i] = "returned"]
                    /\ result' = [result EXCEPT ![i] =
                                     <<MustSleep(largs[i].limit, Len(replicas[i]))>>]
               ELSE /\ pc' = [pc EXCEPT ![i] = "L83"]
                    /\ result' = result
    /\ UNCHANGED <<args, is_old_db, main, graceful_stop, largs, replicas, idx,
                   cycles, fetched, applied>>

\* variant of Apply: the batch is walked from its end
ApplyFromEnd(i) ==
    /\ pc[i] = "L83"
    /\ applied' = [applied EXCEPT ![i] = Append(@, replicas[i][Len(replicas[i]) - idx[i]])]
    /\ idx' = [idx EXCEPT ![i] = @ + 1]
    /\ pc' = [pc EXCEPT ![i] = "L78"]
    /\ UNCHANGED <<args, is_old_db, main, graceful_stop, largs, worker_number, total_workers,
                   replicas, result, cycles, fetched>>

\* lines 82-84: update_collection_replica(replica) returns
Apply(i) ==
    /\ pc[i] = "L83"
    /\ applied' = [applied EXCEPT ![i] = Append(@, replicas[i][idx[i] + 1])]
    /\ idx' = [idx EXCEPT ![i] = @ + 1]
    /\ pc' = [pc EXCEPT ![i] = "L78"]
    /\ UNCHANGED <<args, is_old_db, main, graceful_stop, largs, worker_number, total_workers,
                   replicas, result, cycles, fetched>>

\* variant of ApplyRaise: the failure is caught and the loop goes on
ApplyRaiseCaught(i) ==
    /\ pc[i] = "L83"
    /\ pc' = [pc EXCEPT ![i] = "L78"]
    /\ idx' = [idx EXCEPT ![i] = @ + 1]
    /\ UNCHANGED <<args, is_old_db, main, graceful_stop, largs, worker_number, total_workers,
                   replicas, result, cycles, fetched, applied>>

\* variant of ApplyRaise: the failure also sets the event
ApplyRaiseStopsAll(i) ==
    /\ pc[i] = "L83"
    /\ pc' = [pc EXCEPT ![i] = "failed"]
    /\ graceful_stop' = TRUE
    /\ worker_number' = [worker_number EXCEPT ![i] = Unset]
    /\ total_workers' = [total_workers EXCEPT ![i] = Unset]
    /\ UNCHANGED <<args, is_old_db, main, largs, replicas, idx, result,
                   cycles, fetched, applied>>

\* line 83: update_collection_replica(replica) raises; nothing catches it
ApplyRaise(i) ==
    /\ pc[i] = "L83"
    /\ pc' = [pc EXCEPT ![i] = "failed"]
    /\ worker_number' = [worker_number EXCEPT ![i] = Unset]
    /\ total_workers' = [total_workers EXCEPT ![i] = Unset]
    /\ UNCHANGED <<args, is_old_db, main, graceful_stop, largs, replicas, idx, result,
                   cycles, fetched, applied>>

(* ------------------------- the specification --------------------------- *)

Next ==
    \/ Stop
    \/ Run
    \/ \E i \in Loops : StartThread(i)
    \/ OnceDone
    \/ WaitCheck
    \/ JoinAll
    \/ \E i \in Loops : LoopStart(i)
    \/ \E i \in Loops : LoopIter(i)
    \/ \E i \in Loops : LoopAfter(i)
    \/ \E i \in Loops : Wake(i)
    \/ \E i \in Loops : LoopExit(i)
    \/ \E i \in Loops : Live(i)
    \/ \E i \in Loops : Fetch(i)
    \/ \E i \in Loops : FetchRaise(i)
    \/ \E i \in Loops : ForNext(i)
    \/ \E i \in Loops : Apply(i)
    \/ \E i \in Loops : ApplyRaise(i)

Spec == Init /\ [][Next]_vars

\* every step a loop instance can take
LoopStep(i) ==
    \/ LoopStart(i) \/ LoopIter(i) \/ LoopAfter(i) \/ Wake(i) \/ LoopExit(i)
    \/ Live(i) \/ Fetch(i) \/ FetchRaise(i) \/ ForNext(i) \/ Apply(i) \/ ApplyRaise(i)

\* fair scheduling: a thread that can take a step eventually takes one (every
\* call it makes returns or raises, every sleep and every timed join ends);
\* nothing obliges the environment to call run or stop
Fairness ==
    /\ \A i \in Loops : WF_vars(LoopStep(i))
    /\ \A i \in Loops : WF_vars(StartThread(i))
    /\ WF_vars(OnceDone)
    /\ WF_vars(WaitCheck)
    /\ WF_vars(JoinAll)

\* the calls of run the fair specification follows: a fresh schema, the
\* largest limit, one loop with once or `threads` >= 1 loops without
InitFair ==
    /\ Init
    /\ ~is_old_db
    /\ args.limit = MaxLimit
    /\ args.threads >= 1
    /\ args.once => args.threads = 1

SpecFair == InitFair /\ [][Next]_vars /\ Fairness

(* ----------------------------- helpers --------------------------------- *)

\* the loop instances run has created
Started == {i \in Loops : pc[i] # "none"}

\* the Work Source call of this cycle has been made and no per-item refresh
\* has overwritten the locals of line 64 yet
JustFetched(i) ==
    /\ fetched[i] # <<>>
    /\ \/ pc[i] = "L78" /\ idx[i] = 0
       \/ pc[i] = "returned" /\ replicas[i] = <<>>

\* the partitioning rule of the Work Source (spec 3 and 6): an item belongs
\* to the call fetch(tw, wn, .) iff hash(item) mod tw = wn
Hash(item) == item
Selected(item, tw, wn) == tw > 0 /\ Hash(item) % tw = wn

(* ------------------------------ claims --------------------------------- *)

\* C1: for limit > 0, a Polling Cycle that returns yields
\* must_sleep = (k < limit), k the size of the fetched batch, whether or not
\* the batch was abandoned because of the StopSignal.
MustSleepPositiveLimit ==
    \A i \in Loops :
        (pc[i] = "returned" /\ largs[i].limit > 0)
            => result[i] = <<Len(replicas[i]) < largs[i].limit>>

\* C1 witness: a full batch (k = limit) abandoned on the StopSignal before its
\* last item returns must_sleep = false.
MustSleepPositiveLimitWitness ==
    \E i \in Loops :
        /\ pc[i] = "returned"
        /\ largs[i].limit > 0
        /\ Len(replicas[i]) = largs[i].limit
        /\ idx[i] < Len(replicas[i])
        /\ graceful_stop
        /\ result[i] = <<FALSE>>

\* C2 as stated: for limit <= 0 every returning cycle yields must_sleep = false,
\* the empty batch included.
MustSleepNonPositiveAlwaysFalse ==
    \A i \in Loops :
        (pc[i] = "returned" /\ largs[i].limit <= 0) => result[i] = <<FALSE>>

\* C2 amended: for limit <= 0 a returning cycle yields must_sleep = false
\* exactly when the batch is not empty; the empty batch yields true.
MustSleepNonPositiveLimit ==
    \A i \in Loops :
        (pc[i] = "returned" /\ largs[i].limit <= 0)
            => result[i] = <<Len(replicas[i]) = 0>>

\* C2 witness: a negative limit and a non-empty, fully applied batch.
MustSleepNonPositiveLimitWitness ==
    \E i \in Loops :
        /\ pc[i] = "returned"
        /\ largs[i].limit < 0
        /\ Len(replicas[i]) = MaxItems
        /\ idx[i] = Len(replicas[i])
        /\ result[i] = <<FALSE>>

\* C3: when the StopSignal is set and j items have been applied and the next
\* one is not started, exactly the first j items have been applied, each once,
\* and the cycle ends without applying any further item.
CooperativeStop ==
    [][\A i \in Loops :
          (graceful_stop /\ pc[i] = "L78")
              => /\ applied[i] = SubSeq(replicas[i], 1, idx[i])
                 /\ applied'[i] = applied[i]
                 /\ pc'[i] \in {"L78", "returned"}]_vars

\* C3 witness: the cycle has returned after the first of two items, the second
\* one left unapplied because the StopSignal was set.
CooperativeStopWitness ==
    \E i \in Loops :
        /\ graceful_stop
        /\ pc[i] = "returned"
        /\ Len(replicas[i]) = 2
        /\ idx[i] = 1
        /\ applied[i] = <<replicas[i][1]>>

\* C4 as stated: the Work Source is called with the total_workers and
\* worker_number live() returned at the start of the cycle and with the
\* cycle's limit, so worker_number < total_workers and total_workers >= 1.
FetchUsesLiveAssignment ==
    \A i \in Loops :
        JustFetched(i)
            => /\ fetched[i][1].total_workers = total_workers[i]
               /\ fetched[i][1].worker_number = worker_number[i]
               /\ fetched[i][1].limit = largs[i].limit
               /\ fetched[i][1].worker_number < fetched[i][1].total_workers
               /\ fetched[i][1].total_workers >= 1

\* C5 as stated: in a stable fleet of N workers with assignments (0,N) ..
\* (N-1,N), every pending item is selected by exactly one worker's fetch.
FleetPartition ==
    (/\ Started # {}
     /\ \A i \in Started :
           /\ JustFetched(i)
           /\ worker_number[i] = i
           /\ total_workers[i] = Cardinality(Started))
        => \A item \in Items :
              Cardinality({i \in Started :
                  Selected(item, fetched[i][1].total_workers,
                           fetched[i][1].worker_number)}) = 1

StaleSchemaNoWork ==
    is_old_db =>
        /\ main \in {"init", "raised"}
        /\ \A i \in Loops :
              /\ pc[i] = "none"
              /\ cycles[i] = 0
              /\ total_workers[i] = Unset
              /\ fetched[i] = <<>>
              /\ applied[i] = <<>>

\* C7 witness: run(once = false, threads >= 1) has raised on the stale schema.
StaleSchemaNoWorkWitness ==
    /\ is_old_db
    /\ main = "raised"
    /\ ~args.once
    /\ args.threads >= 1

\* C8 as stated: in continuous mode run does not return while a loop
\* instance it started is alive.
DriverWaitsForAll ==
    (main = "returned" /\ ~args.once) => \A i \in Loops : ~Alive(i)

\* C9: a step in which a loop instance fails on an error of the Work Source
\* or the Work Applier leaves the StopSignal and every other instance's
\* state as they were, so the others go on as before.
ErrorIsolation ==
    [][\A i \in Loops :
          (pc[i] # "failed" /\ pc'[i] = "failed")
              => /\ graceful_stop' = graceful_stop
                 /\ \A j \in Loops \ {i} :
                       /\ pc'[j] = pc[j]
                       /\ largs'[j] = largs[j]
                       /\ worker_number'[j] = worker_number[j]
                       /\ total_workers'[j] = total_workers[j]
                       /\ replicas'[j] = replicas[j]
                       /\ idx'[j] = idx[j]
                       /\ result'[j] = result[j]
                       /\ cycles'[j] = cycles[j]
                       /\ fetched'[j] = fetched[j]
                       /\ applied'[j] = applied[j]]_vars

\* C9 witness: one instance has failed, another is in the middle of its
\* second cycle with the StopSignal unset.
ErrorIsolationWitness ==
    \E i, j \in Loops :
        /\ i # j
        /\ pc[i] = "failed"
        /\ pc[j] = "L83"
        /\ cycles[j] = 2
        /\ ~graceful_stop

\* C10 as stated: no Work Source fetch happens once the StopSignal is set.
NoFetchAfterStop ==
    [][\A i \in Loops :
          (fetched[i] = <<>> /\ fetched'[i] # <<>>) => ~graceful_stop]_vars

\* C10 amended: once the StopSignal is set no loop instance begins a Polling
\* Cycle (a fetch is only ever made by a cycle already begun), a loop that
\* checks the signal at its loop head or on waking goes to STOPPING, and
\* STOPPING/STOPPED are never left.
NoNewCycleAfterStop ==
    [][\A i \in Loops :
          /\ (graceful_stop /\ pc[i] # "L64") => pc'[i] # "L64"
          /\ (fetched[i] = <<>> /\ fetched'[i] # <<>>) => pc[i] = "L67"
          /\ (graceful_stop /\ pc[i] \in {"iter", "sleeping"} /\ pc'[i] # pc[i])
                => pc'[i] = "stopping"
          /\ pc[i] \in {"stopping", "stopped"} => pc'[i] \in {"stopping", "stopped"}]_vars

\* C10 witness: in continuous mode a loop that ran a cycle has observed the
\* StopSignal and stopped.
NoNewCycleAfterStopWitness ==
    \E i \in Loops :
        /\ ~args.once
        /\ graceful_stop
        /\ pc[i] = "stopped"
        /\ cycles[i] >= 1

\* C11: in continuous mode, once the StopSignal is set while run waits, under
\* fair scheduling run eventually returns with every started loop instance
\* ended, and every instance ends STOPPED unless an error was raised in one.
ShutdownLiveness ==
    /\ (graceful_stop /\ main \in {"wait", "join"})
          ~> (main = "returned" /\ \A i \in Started : ~Alive(i))
    /\ (graceful_stop /\ main \in {"wait", "join"})
          ~> ((\A i \in Started : pc[i] = "stopped") \/ (\E i \in Started : pc[i] = "failed"))

\* C11 witness: run(threads = 2) has returned after a stop request that found
\* one instance asleep or polling, and both instances are STOPPED.
ShutdownLivenessWitness ==
    /\ graceful_stop
    /\ main = "returned"
    /\ args.threads = 2
    /\ \A i \in Started : pc[i] = "stopped" /\ cycles[i] >= 1

\* C12: a loop instance enters SLEEPING exactly on leaving a cycle that
\* returned must_sleep = true with once false; after a full batch
\* (k = limit > 0) the loop goes straight to its next iteration, after an
\* empty batch it sleeps, and SLEEPING is entered from nowhere else.
SleepIffMustSleep ==
    [][\A i \in Loops :
          /\ (pc[i] = "returned" /\ pc'[i] # "returned")
                => /\ (pc'[i] = "sleeping") = (result[i][1] /\ ~largs[i].once)
                   /\ (~result[i][1] /\ ~largs[i].once) => pc'[i] = "iter"
                   /\ (~largs[i].once /\ largs[i].limit > 0
                          /\ Len(replicas[i]) = largs[i].limit) => pc'[i] = "iter"
                   /\ (~largs[i].once /\ replicas[i] = <<>>) => pc'[i] = "sleeping"
          /\ (pc[i] # "sleeping" /\ pc'[i] = "sleeping") => pc[i] = "returned"
          /\ (pc[i] # "L64" /\ pc'[i] = "L64") => pc[i] = "iter"]_vars

\* C12 witness: a loop instance in continuous mode sleeps after its first
\* cycle while another, whose first batch was full, is already in its second.
SleepIffMustSleepWitness ==
    \E i, j \in Loops :
        /\ ~graceful_stop
        /\ pc[i] = "sleeping"
        /\ cycles[i] = 1
        /\ pc[j] = "L64"
        /\ cycles[j] = 2
        /\ largs[j].limit = 1

\* C13: when the Work Source returns no item the cycle returns
\* must_sleep = true at once, for every limit: no Work Applier call and no
\* further liveness refresh happens in that cycle.
EmptyBatchSleeps ==
    [][\A i \in Loops :
          /\ (pc[i] = "L67" /\ pc'[i] \notin {"L67", "failed"} /\ replicas'[i] = <<>>)
                => /\ pc'[i] = "returned"
                   /\ result'[i] = <<TRUE>>
                   /\ applied'[i] = <<>>
                   /\ worker_number'[i] = worker_number[i]
                   /\ total_workers'[i] = total_workers[i]
          /\ (pc[i] = "returned" /\ replicas[i] = <<>>)
                => /\ result[i] = <<TRUE>>
                   /\ applied[i] = <<>>
                   /\ applied'[i] = <<>>
                   /\ total_workers'[i] \in {total_workers[i], Unset}]_vars

\* C13 witness: an empty batch under limit = 0 has returned must_sleep = true.
EmptyBatchSleepsWitness ==
    \E i \in Loops :
        /\ pc[i] = "returned"
        /\ fetched[i] # <<>>
        /\ replicas[i] = <<>>
        /\ largs[i].limit = 0
        /\ result[i] = <<TRUE>>

\* C14: a failure of the Work Applier on the i-th item is not caught by the
\* cycle: the cycle ends with the error and no must_sleep outcome, no item
\* after the i-th is applied, and items 1..i-1 stay applied.
ApplierFailureEndsCycle ==
    [][\A i \in Loops :
          /\ (pc[i] = "L83" /\ pc'[i] # "L83" /\ applied'[i] = applied[i])
                => /\ pc'[i] = "failed"
                   /\ result'[i] = <<>>
                   /\ applied'[i] = SubSeq(replicas[i], 1, idx[i])
          /\ pc[i] = "failed"
                => /\ pc'[i] = "failed"
                   /\ result[i] = <<>> /\ result'[i] = <<>>
                   /\ applied[i] = SubSeq(replicas[i], 1, idx[i])
                   /\ applied'[i] = applied[i]
                   /\ fetched'[i] = fetched[i]]_vars

\* C14 witness: the second item of a batch of two failed after the first was
\* applied.
ApplierFailureEndsCycleWitness ==
    \E i \in Loops :
        /\ pc[i] = "failed"
        /\ Len(replicas[i]) = 2
        /\ idx[i] = 1
        /\ applied[i] = <<replicas[i][1]>>
        /\ result[i] = <<>>

\* C15: in a cycle during which the StopSignal is never set and the Work
\* Applier never fails, the Work Applier invocations are exactly the items
\* returned by the Work Source, in the same order, each once.
AppliedEqualsBatch ==
    \A i \in Loops :
        /\ idx[i] <= Len(replicas[i])
        /\ applied[i] = SubSeq(replicas[i], 1, idx[i])
        /\ (pc[i] = "returned" /\ ~graceful_stop) => applied[i] = replicas[i]

\* C15 witness: a cycle over a batch of two ended without a stop and applied
\* both items in order.
AppliedEqualsBatchWitness ==
    \E i \in Loops :
        /\ pc[i] = "returned"
        /\ ~graceful_stop
        /\ Len(replicas[i]) = 2
        /\ applied[i] = replicas[i]

\* C16: the PartitionAssignment is not cached across cycles: every Work
\* Source fetch is preceded, in its own cycle and after the previous cycle's
\* fetch, by a heartbeat.live() call, and the fetch is computed from the pair
\* that call returned (worker_number as returned, total_workers through the
\* decrement of line 67); nothing of the pair outlives the cycle.
AssignmentNotCached ==
    [][\A i \in Loops :
          /\ (pc[i] # "L67" /\ pc'[i] = "L67")
                => /\ pc[i] = "L64"
                   /\ fetched[i] = <<>>
                   /\ worker_number[i] = Unset /\ total_workers[i] = Unset
                   /\ <<worker_number'[i], total_workers'[i]>> \in Assignments
          /\ (fetched'[i] # fetched[i] /\ fetched'[i] # <<>>)
                => /\ pc[i] = "L67"
                   /\ <<worker_number[i], total_workers[i]>> \in Assignments
                   /\ fetched'[i] = <<[total_workers |-> total_workers[i] - 1,
                                      worker_number |-> worker_number[i],
                                      limit |-> largs[i].limit]>>
          /\ (pc[i] = "returned" /\ pc'[i] # "returned")
                => /\ worker_number'[i] = Unset /\ total_workers'[i] = Unset
                   /\ fetched'[i] = <<>>]_vars

\* C16 witness: the second cycle of a loop has fetched for worker 1 of a
\* fleet its own live() call reported as 2.
AssignmentNotCachedWitness ==
    \E i \in Loops :
        /\ cycles[i] = 2
        /\ JustFetched(i)
        /\ worker_number[i] = 1 /\ total_workers[i] = 2
        /\ fetched[i][1].worker_number = 1

\* C17: a batch is processed under one assignment: a cycle calls the Work
\* Source once, liveness is refreshed before each item, and a changed
\* (worker_number, total_workers) from such a refresh changes neither the set
\* nor the order of the items of the fetched batch that are applied.
OneFetchPerCycle ==
    [][\A i \in Loops :
          /\ (fetched'[i] # fetched[i] /\ fetched'[i] # <<>>)
                => (fetched[i] = <<>> /\ Len(fetched'[i]) = 1 /\ pc[i] = "L67")
          /\ (replicas'[i] # replicas[i]) => (pc[i] = "L67" \/ pc[i] = "returned")
          /\ (pc[i] # "L83" /\ pc'[i] = "L83")
                => /\ pc[i] = "L78"
                   /\ <<worker_number'[i], total_workers'[i]>> \in Assignments
          /\ (pc[i] = "L78" /\ <<worker_number'[i], total_workers'[i]>>
                                  # <<worker_number[i], total_workers[i]>>)
                => /\ replicas'[i] = replicas[i]
                   /\ idx'[i] = idx[i]
                   /\ applied'[i] = applied[i]
                   /\ fetched'[i] = fetched[i]
          /\ (pc[i] = "L83" /\ applied'[i] # applied[i])
                => /\ applied'[i] = Append(applied[i], replicas[i][idx[i] + 1])
                   /\ idx'[i] = idx[i] + 1]_vars

\* C17 witness: a whole batch of two was applied in order although the
\* refreshes reported a worker_number other than the one fetched for.
OneFetchPerCycleWitness ==
    \E i \in Loops :
        /\ pc[i] = "returned"
        /\ Len(replicas[i]) = 2
        /\ applied[i] = replicas[i]
        /\ Len(fetched[i]) = 1
        /\ fetched[i][1].worker_number # worker_number[i]

\* C18: the StopSignal is monotonic: it starts unset, only stop() writes it,
\* stop() sets it, and once set it stays set through cycles, sleeps, further
\* stop() calls and loop failures; no loop or driver step clears it.
StopMonotonic ==
    /\ ~graceful_stop
    /\ [][/\ graceful_stop => graceful_stop'
          /\ (graceful_stop' # graceful_stop)
                => /\ graceful_stop' = TRUE
                   /\ UNCHANGED <<args, is_old_db, main>>
                   /\ UNCHANGED loopVars]_vars

\* C18 witness: the event is set, one loop has failed and the other has left
\* through the stop after a cycle.
StopMonotonicWitness ==
    /\ graceful_stop
    /\ \E i, j \in Loops :
          /\ pc[i] = "failed"
          /\ pc[j] = "stopped" /\ cycles[j] >= 1

\* C19: the limit and sleep_time given to run are those of every Daemon
\* Loop run starts, in once mode as in continuous mode: each cycle fetches
\* with that limit and computes must_sleep against it.
RunArgsReachLoops ==
    \A i \in Started :
        /\ largs[i].limit = args.limit
        /\ largs[i].sleep_time = args.sleep_time
        /\ fetched[i] # <<>> => fetched[i][1].limit = args.limit
        /\ (pc[i] = "returned" /\ replicas[i] # <<>>)
              => result[i] = <<MustSleep(args.limit, Len(replicas[i]))>>

\* C20: loop instances share no assignment state: under every interleaving
\* an instance's fetch uses the pair of its own latest heartbeat.live() call
\* (worker_number as returned, total_workers through the decrement of line
\* 67), a step of one instance writes no other instance's pair or fetch, and
\* instances given distinct worker_numbers fetch for distinct worker_numbers.
NoSharedAssignment ==
    [][\A i \in Loops :
          /\ (fetched'[i] # fetched[i] /\ fetched'[i] # <<>>)
                => /\ fetched'[i][1].worker_number = worker_number[i]
                   /\ fetched'[i][1].total_workers = total_workers[i] - 1
          /\ (worker_number'[i] # worker_number[i] \/ total_workers'[i] # total_workers[i]
                \/ fetched'[i] # fetched[i])
                => \A j \in Loops \ {i} :
                       /\ worker_number'[j] = worker_number[j]
                       /\ total_workers'[j] = total_workers[j]
                       /\ fetched'[j] = fetched[j]
          /\ \A j \in Loops \ {i} :
                (JustFetched(i) /\ JustFetched(j) /\ worker_number[i] # worker_number[j])
                   => fetched[i][1].worker_number # fetched[j][1].worker_number]_vars

\* C20 witness: two instances, given the numbers 0 and 1 out of 2, have each
\* fetched for their own number.
NoSharedAssignmentWitness ==
    \E i, j \in Loops :
        /\ JustFetched(i) /\ JustFetched(j)
        /\ total_workers[i] = 2 /\ total_workers[j] = 2
        /\ worker_number[i] = 0 /\ worker_number[j] = 1
        /\ fetched[i][1].worker_number = 0
        /\ fetched[j][1].worker_number = 1

====
